---- MODULE Spec2Model ----
(***************************************************************************)
(* Model of the resilient API access layer of criaitor-frontend:           *)
(*   src/src/lib/api.ts       credential store, single-flight refresh,     *)
(*                            apiFetch with refresh-and-retry              *)
(*   src/src/hooks/useIdeas.ts  the collection-fetch hook (abort handle,   *)
(*                            fetchIdeas, refetch, effect and cleanup),    *)
(*                            the payload normalizer, the timestamp        *)
(*                            parser and the pagination adapter            *)
(*                                                                         *)
(* JavaScript runs one task at a time.  Every action below is the code     *)
(* that runs between two await points.  A continuation whose promise has   *)
(* already settled is a microtask: it runs before the next network event   *)
(* or user event, so the actions that model events are disabled while a    *)
(* microtask is pending (MicrotaskPending).                                *)
(***************************************************************************)
EXTENDS Integers, FiniteSets, Sequences, TLC

\* ---------------------------------------------------------------- bounds
MaxCalls == 2      \* apiFetch calls started in one run
MaxGen   == 3      \* credential pairs issued by the server in one run
MaxStoreCalls == 1 \* apiFetch calls in a run of the credential-store system
MaxMaps    == 2    \* calls of the normalizer on one payload
MaxTicks   == 2    \* advances of the clock in one run
MaxItems   == 2    \* elements of a response's array
MaxFetches == 1    \* history responses handled in one run

\* ------------------------------------------------------- values and sets
Null      == 0     \* null / absent credential
UndefStr  == -1    \* the string "undefined" that setItem stores for undefined
Undefined == -3    \* undefined (optional chaining on a missing localStorage)
Throw     == -2    \* marker: the evaluation threw

StorageModes == {"ok", "missing", "denied", "readonly"}
Paths        == {"/", "/login", "/register"}
Statuses     == {200, 401, 403, 404}

CallIds == 1..MaxCalls

VARIABLES
  storage,         \* how globalThis.localStorage behaves in this context
  access,          \* localStorage['auth_token']     (Null when absent)
  refresh,         \* localStorage['refresh_token']  (Null when absent)
  pathname,        \* globalThis.location.pathname
  href,            \* last value assigned to location.href ("" = none)
  isRefreshing,    \* api.ts:64
  refreshPromise,  \* api.ts:65 (0 = null, else the id of a refresh operation)
  rop,             \* refresh operations (the async closure of api.ts:73)
  nOps,            \* refresh operations created so far
  calls,           \* apiFetch calls
  nCalls,          \* apiFetch calls started so far
  gen,             \* credential pairs issued so far
  data,            \* useIdeas: data state and the fetch that wrote it
  error,           \* useIdeas: error state and the fetch that wrote it
  loading,         \* useIdeas: loading state
  abortRef,        \* useIdeas: abortRef.current (0 = null, else a call id)
  effectCtl,       \* controller captured by the cleanup of the last effect run
  mounted,         \* the component using useIdeas is mounted
  storeThrew,      \* a credential-store operation has thrown to its caller
  payload,         \* normalizer: the raw payload handed to the normalizer
  now,             \* the clock that Date.now() reads, in units of 10^9 ms
  engineParses,    \* the engine's Date parser accepts the texts it is given
  nIds,            \* identifiers generated by generateSecureIdeaId so far
  mapped,          \* normalizer: results of the calls made on payload
  body,            \* the JSON body of the history response
  resStatus,       \* status of the history response last handled (0 = none)
  page,            \* what fetchIdeasFromAPI last returned or threw
  nFetch           \* fetchIdeasFromAPI calls made on body

vars == <<storage, access, refresh, pathname, href, isRefreshing,
          refreshPromise, rop, nOps, calls, nCalls, gen, data, error,
          loading, abortRef, effectCtl, mounted, storeThrew,
          payload, now, engineParses, nIds, mapped, body, resStatus, page,
          nFetch>>

clientVars == <<storage, access, refresh, pathname, href, isRefreshing,
                refreshPromise, rop, nOps, calls, nCalls, gen, data, error,
                loading, abortRef, effectCtl, mounted, storeThrew>>
normVars == <<payload, now, engineParses, nIds, mapped>>
pageVars == <<body, resStatus, page, nFetch>>
dataVars == <<normVars, pageVars>>
storeVars == <<access, refresh>>
refreshVars == <<isRefreshing, refreshPromise, rop, nOps>>
hookVars == <<data, error, loading, abortRef, effectCtl, mounted>>

\* ------------------------------------------------------ credential store
\* globalThis?.localStorage?.getItem(key)
RawGetItem(key) ==
  IF storage = "denied" THEN Throw
  ELSE IF storage = "missing" THEN Undefined
  ELSE IF key = "auth_token" THEN access ELSE refresh

\* globalThis?.localStorage?.setItem(key, value) on the store s = [a, r]:
\* whether it threw, and the store afterwards
RawSetItem(s, key, value) ==
  IF storage \in {"denied", "readonly"} THEN [threw |-> TRUE, s |-> s]
  ELSE IF storage = "missing" THEN [threw |-> FALSE, s |-> s]
  ELSE IF key = "auth_token" THEN [threw |-> FALSE, s |-> [s EXCEPT !.a = value]]
  ELSE [threw |-> FALSE, s |-> [s EXCEPT !.r = value]]

\* globalThis?.localStorage?.removeItem(key)
RawRemoveItem(s, key) ==
  IF storage = "denied" THEN [threw |-> TRUE, s |-> s]
  ELSE IF storage = "missing" THEN [threw |-> FALSE, s |-> s]
  ELSE IF key = "auth_token" THEN [threw |-> FALSE, s |-> [s EXCEPT !.a = Null]]
  ELSE [threw |-> FALSE, s |-> [s EXCEPT !.r = Null]]

\* a string argument as setItem stores it
Stored(v) == IF v = Undefined THEN UndefStr ELSE v

\* getAccessToken without its try/catch: the exception reaches the caller
getAccessTokenUnguarded ==
  LET v == RawGetItem("auth_token")
  IN  IF v \in {Undefined, Null} THEN Null ELSE v

getAccessToken ==
  LET v == RawGetItem("auth_token")
  IN  IF v = Throw THEN Null
      ELSE IF v \in {Undefined, Null} THEN Null ELSE v

getRefreshToken ==
  LET v == RawGetItem("refresh_token")
  IN  IF v = Throw THEN Null
      ELSE IF v \in {Undefined, Null} THEN Null ELSE v

\* The setters take and return the store [a, r]; the try/catch of each
\* swallows the exception and leaves the store as it was.
setAccessToken(s, token) ==
  LET t == RawSetItem(s, "auth_token", Stored(token))
  IN  IF t.threw THEN s ELSE t.s

setRefreshToken(s, token) ==
  LET t == RawSetItem(s, "refresh_token", Stored(token))
  IN  IF t.threw THEN s ELSE t.s

\* setAuthTokens that forgets the refresh credential
setAuthTokensAccessOnly(s, accessToken, refreshToken) ==
  setAccessToken(s, accessToken)

setAuthTokens(s, accessToken, refreshToken) ==
  setRefreshToken(setAccessToken(s, accessToken), refreshToken)

\* clearAuthTokens that leaves the refresh credential behind
clearAuthTokensAccessOnly(s) ==
  LET t1 == RawRemoveItem(s, "auth_token")
  IN  IF t1.threw THEN s ELSE t1.s

clearAuthTokens(s) ==
  LET t1 == RawRemoveItem(s, "auth_token")
  IN  IF t1.threw THEN s
      ELSE LET t2 == RawRemoveItem(t1.s, "refresh_token")
           IN  IF t2.threw THEN t1.s ELSE t2.s

setAuthToken(s, token) == setAccessToken(s, token)

clearAuthToken(s) == clearAuthTokens(s)

CurStore == [a |-> access, r |-> refresh]

\* ------------------------------------------------------------- location
\* redirectToLoginIfNeeded: the value of location.href afterwards
redirectToLoginIfNeeded(h) ==
  IF pathname = "/login" \/ pathname = "/register" THEN h ELSE "/login"


\* ------------------------------------------------------------ the state
IdleCall == [pc |-> "idle", hook |-> FALSE, silent |-> FALSE, aborted |-> FALSE,
             tok |-> Null, orig |-> 0, res |-> 0, exc |-> "none",
             reqs |-> 0, refs |-> 0, op |-> 0, newTok |-> Null]

NoOp == [st |-> "none", val |-> Null]

\* The state when the module has been loaded and the hook constructed, in a
\* browser context whose storage behaves as one of modes and whose location is
\* one of paths.  A usable store holds the pair of an earlier session or nothing.
InitIn(modes, paths) ==
  /\ storage \in modes
  /\ \E g \in {0, 1} :
       /\ gen = g
       /\ access = (IF storage = "ok" /\ g = 1 THEN 1 ELSE Null)
       /\ refresh = (IF storage = "ok" /\ g = 1 THEN 1 ELSE Null)
  /\ pathname \in paths
  /\ href = ""
  /\ isRefreshing = FALSE
  /\ refreshPromise = 0
  /\ rop = [i \in CallIds |-> NoOp]
  /\ nOps = 0
  /\ calls = [c \in CallIds |-> IdleCall]
  /\ nCalls = 0
  /\ data = [by |-> 0, val |-> "null"]
  /\ error = [by |-> 0, val |-> "null"]
  /\ loading = FALSE
  /\ abortRef = 0
  /\ effectCtl = 0
  /\ mounted = TRUE
  /\ storeThrew = FALSE

\* a continuation is ready to run: a fetch whose signal is aborted rejects, a
\* caller awaiting a settled refresh promise resumes, and the caller of a
\* settled apiFetch takes its result
Ready(c) ==
  \/ calls[c].pc \in {"first", "retry", "body"} /\ calls[c].aborted
  \/ calls[c].pc = "waitRefresh" /\ rop[calls[c].op].st = "settled"
  \/ calls[c].pc = "returned"

MicrotaskPending == \E c \in CallIds : Ready(c)

\* ------------------------------------------------- credential operations
\* The exported credential operations, called by the login and logout pages.
StoreOp(s) ==
  /\ ~MicrotaskPending
  /\ access' = s.a
  /\ refresh' = s.r
  /\ UNCHANGED <<dataVars, storage, pathname, href, refreshVars, calls, nCalls,
                 hookVars, storeThrew>>

SetAccessToken ==
  /\ gen < MaxGen
  /\ gen' = gen + 1
  /\ StoreOp(setAccessToken(CurStore, gen + 1))

SetRefreshToken ==
  /\ gen < MaxGen
  /\ gen' = gen + 1
  /\ StoreOp(setRefreshToken(CurStore, gen + 1))

SetAuthToken ==
  /\ gen < MaxGen
  /\ gen' = gen + 1
  /\ StoreOp(setAuthToken(CurStore, gen + 1))

SetAuthTokens ==
  /\ gen < MaxGen
  /\ gen' = gen + 1
  /\ StoreOp(setAuthTokens(CurStore, gen + 1, gen + 1))

ClearAuthTokens ==
  /\ access # Null \/ refresh # Null
  /\ gen' = gen
  /\ StoreOp(clearAuthTokens(CurStore))

ClearAuthToken ==
  /\ access # Null \/ refresh # Null
  /\ gen' = gen
  /\ StoreOp(clearAuthToken(CurStore))


\* ------------------------------------------------------ useIdeas helpers
\* fetchIdeasFromAPI after apiFetch returned status st to a hook fetch:
\* 404 is an empty collection, another non-ok status throws Error, and an ok
\* response goes on to read the body
HookOutcome(rec, st) ==
  IF ~rec.hook THEN "none"
  ELSE IF st = 404 THEN "empty"
  ELSE IF st # 200 THEN "err"
  ELSE "pending"

\* fetchIdeas: setData / setError / the finally block, for fetch c
ApplyHook(c, outcome) ==
  /\ data' = IF outcome \in {"data", "empty"} THEN [by |-> c, val |-> outcome]
             ELSE data
  /\ error' = IF outcome = "err" THEN [by |-> c, val |-> "err"] ELSE error
  /\ loading' = IF outcome \in {"data", "empty", "err", "abort"} /\ ~calls[c].silent
                THEN FALSE ELSE loading
  /\ UNCHANGED <<abortRef, effectCtl, mounted>>

\* apiFetch returns the response with status st
Returned(rec, st) ==
  [rec EXCEPT !.res = st,
              !.pc = IF rec.hook /\ st = 200 THEN "body" ELSE "returned"]

\* ------------------------------------------------------- refresh (api.ts)
\* the guard of refreshAccessToken with the test of refreshPromise inverted
RefreshInFlightNever == isRefreshing /\ refreshPromise = 0

RefreshInFlight == isRefreshing /\ refreshPromise # 0

\* a finally block that forgets to reset the flag
RefreshFinallyKeepsFlag == [ir |-> TRUE, rp |-> 0]

\* the finally block of the refresh operation
RefreshFinally == [ir |-> FALSE, rp |-> 0]

\* refreshAccessToken called on the store s, up to its first await: the
\* refresh state and the store afterwards, and the operation the caller awaits
refreshAccessToken(s) ==
  IF RefreshInFlight
  THEN [ir |-> isRefreshing, rp |-> refreshPromise, rop |-> rop, n |-> nOps,
        s |-> s, op |-> refreshPromise]
  ELSE LET id == nOps + 1
           rt == getRefreshToken
       IN  IF rt = Null
           THEN \* the closure completes without awaiting; its finally runs
                \* before the assignment of line 73 stores the promise
                [ir |-> RefreshFinally.ir, rp |-> id,
                 rop |-> [rop EXCEPT ![id] = [st |-> "settled",
                                              val |-> Null]],
                 n |-> id, s |-> clearAuthTokens(s), op |-> id]
           ELSE [ir |-> TRUE, rp |-> id,
                 rop |-> [rop EXCEPT ![id] = [st |-> "fetch", val |-> Null]],
                 n |-> id, s |-> s, op |-> id]

\* the refresh operation settles with value v and store s
SettleRefresh(id, v, s) ==
  /\ rop' = [rop EXCEPT ![id] = [@ EXCEPT !.st = "settled", !.val = v]]
  /\ isRefreshing' = RefreshFinally.ir
  /\ refreshPromise' = RefreshFinally.rp
  /\ access' = s.a
  /\ refresh' = s.r
  /\ UNCHANGED <<dataVars, storage, pathname, href, nOps, calls, nCalls, hookVars,
                 storeThrew>>

\* the response of POST /api/auth/refresh arrives
RefreshResponse(id) ==
  /\ ~MicrotaskPending
  /\ rop[id].st = "fetch"
  /\ \E ok \in BOOLEAN :
       IF ok
       THEN /\ rop' = [rop EXCEPT ![id] = [@ EXCEPT !.st = "json"]]
            /\ UNCHANGED <<dataVars, storage, storeVars, pathname, href, isRefreshing,
                           refreshPromise, nOps, calls, nCalls, gen, hookVars,
                           storeThrew>>
       ELSE /\ SettleRefresh(id, Null, clearAuthTokens(CurStore))
            /\ gen' = gen

\* the refresh request fails in transport: the catch block
RefreshNetworkError(id) ==
  /\ ~MicrotaskPending
  /\ rop[id].st = "fetch"
  /\ SettleRefresh(id, Null, clearAuthTokens(CurStore))
  /\ gen' = gen

\* the body of the refresh response has been read: a pair of credentials, a
\* JSON object without them, or a body that is not JSON
RefreshBody(id) ==
  /\ ~MicrotaskPending
  /\ rop[id].st = "json"
  /\ \E kind \in {"pair", "empty", "bad"} :
       CASE kind = "pair" ->
              /\ gen < MaxGen
              /\ gen' = gen + 1
              /\ SettleRefresh(id, gen + 1,
                               setAuthTokens(CurStore, gen + 1, gen + 1))
         [] kind = "empty" ->
              /\ gen' = gen
              /\ SettleRefresh(id, Null,
                               setAuthTokens(CurStore, Undefined, Undefined))
         [] kind = "bad" ->
              /\ gen' = gen
              /\ SettleRefresh(id, Null, clearAuthTokens(CurStore))

\* ------------------------------------------------------ apiFetch (api.ts)
\* the retry test of apiFetch without the test of the token
ShouldRefreshAnyToken(st, token) == st = 401 \/ st = 403

ShouldRefresh(st, token) == (st = 401 \/ st = 403) /\ token # Null

\* the test of the retried response that misses 403
RetryUnauthorized401(st) == st = 401

RetryUnauthorized(st) == st = 401 \/ st = 403

\* apiFetch up to its first await, for a new call
NewCall(isHook, isSilent) ==
  LET token == getAccessToken
  IN  IF token = Throw
      THEN [IdleCall EXCEPT !.pc = "returned", !.exc = "SecurityError",
                            !.hook = isHook, !.silent = isSilent]
      ELSE [IdleCall EXCEPT !.pc = "first", !.tok = token, !.reqs = 1,
                            !.hook = isHook, !.silent = isSilent]

\* a service (ideaService) calls apiFetch without a signal
ServiceCall ==
  /\ ~MicrotaskPending
  /\ nCalls < MaxCalls
  /\ nCalls' = nCalls + 1
  /\ calls' = [calls EXCEPT ![nCalls + 1] = NewCall(FALSE, FALSE)]
  /\ storeThrew' = (storeThrew \/ getAccessToken = Throw)
  /\ UNCHANGED <<dataVars, storage, storeVars, pathname, href, refreshVars, gen, hookVars>>

\* the response of the first request arrives
FirstResponse(c) ==
  /\ ~MicrotaskPending
  /\ calls[c].pc = "first"
  /\ \E st \in Statuses :
       IF ShouldRefresh(st, calls[c].tok)
       THEN \* retryRequestWithFreshToken up to await refreshAccessToken()
            LET r == refreshAccessToken(CurStore)
            IN  /\ calls' = [calls EXCEPT ![c] = [@ EXCEPT !.orig = st,
                                !.pc = "waitRefresh", !.refs = @ + 1,
                                !.op = r.op]]
                /\ isRefreshing' = r.ir
                /\ refreshPromise' = r.rp
                /\ rop' = r.rop
                /\ nOps' = r.n
                /\ access' = r.s.a
                /\ refresh' = r.s.r
                /\ UNCHANGED <<dataVars, storage, pathname, href, nCalls, gen, hookVars,
                               storeThrew>>
       ELSE /\ calls' = [calls EXCEPT ![c] = Returned([@ EXCEPT !.orig = st], st)]
            /\ ApplyHook(c, HookOutcome(calls[c], st))
            /\ UNCHANGED <<dataVars, storage, storeVars, pathname, href, refreshVars,
                           nCalls, gen, storeThrew>>

\* retryRequestWithFreshToken after await refreshAccessToken()
ResumeAfterRefresh(c) ==
  /\ calls[c].pc = "waitRefresh"
  /\ rop[calls[c].op].st = "settled"
  /\ LET newToken == rop[calls[c].op].val
     IN  IF newToken = Null
         THEN LET s == clearAuthTokens(CurStore)
              IN  /\ access' = s.a
                  /\ refresh' = s.r
                  /\ href' = redirectToLoginIfNeeded(href)
                  /\ calls' = [calls EXCEPT ![c] = Returned(@, @.orig)]
                  /\ ApplyHook(c, HookOutcome(calls[c], calls[c].orig))
         ELSE /\ calls' = [calls EXCEPT ![c] = [@ EXCEPT !.pc = "retry",
                              !.newTok = newToken, !.reqs = @ + 1]]
              /\ UNCHANGED <<storeVars, href, hookVars>>
  /\ UNCHANGED <<dataVars, storage, pathname, refreshVars, nCalls, gen, storeThrew>>

\* the response of the retried request arrives
RetryResponse(c) ==
  /\ ~MicrotaskPending
  /\ calls[c].pc = "retry"
  /\ \E st \in Statuses :
       /\ IF RetryUnauthorized(st)
          THEN LET s == clearAuthTokens(CurStore)
               IN  /\ access' = s.a
                   /\ refresh' = s.r
                   /\ href' = redirectToLoginIfNeeded(href)
          ELSE UNCHANGED <<storeVars, href>>
       /\ calls' = [calls EXCEPT ![c] = Returned(@, st)]
       /\ ApplyHook(c, HookOutcome(calls[c], st))
  /\ UNCHANGED <<dataVars, storage, pathname, refreshVars, nCalls, gen, storeThrew>>

\* the first or the retried request fails in transport: fetch rejects and
\* apiFetch throws
NetworkError(c) ==
  /\ ~MicrotaskPending
  /\ calls[c].pc \in {"first", "retry"}
  /\ calls' = [calls EXCEPT ![c] = [@ EXCEPT !.pc = "returned", !.exc = "TypeError"]]
  /\ ApplyHook(c, IF calls[c].hook THEN "err" ELSE "none")
  /\ UNCHANGED <<dataVars, storage, storeVars, pathname, href, refreshVars, nCalls, gen,
                 storeThrew>>

\* res.json() of a hook fetch settles: the collection is normalized and
\* stored, or reading or normalizing threw
BodyRead(c) ==
  /\ ~MicrotaskPending
  /\ calls[c].pc = "body"
  /\ calls' = [calls EXCEPT ![c] = [@ EXCEPT !.pc = "returned"]]
  /\ \E good \in BOOLEAN : ApplyHook(c, IF good THEN "data" ELSE "err")
  /\ UNCHANGED <<dataVars, storage, storeVars, pathname, href, refreshVars, nCalls, gen,
                 storeThrew>>

\* a pending fetch or body read whose signal is aborted rejects with
\* AbortError; fetchIdeas returns from its catch block
AbortReject(c) ==
  /\ calls[c].pc \in {"first", "retry", "body"}
  /\ calls[c].aborted
  /\ calls' = [calls EXCEPT ![c] = [@ EXCEPT !.pc = "returned",
                 !.exc = IF calls[c].pc = "body" THEN "none" ELSE "AbortError"]]
  /\ ApplyHook(c, "abort")
  /\ UNCHANGED <<dataVars, storage, storeVars, pathname, href, refreshVars, nCalls, gen,
                 storeThrew>>

\* The promise of apiFetch has settled (pc = "returned": resolved with res or
\* rejected with exc) and its caller has taken the result: the frame of the
\* call is gone, only its AbortController remains.
CallerContinues(c) ==
  /\ calls[c].pc = "returned"
  /\ calls' = [calls EXCEPT ![c] = [IdleCall EXCEPT !.pc = "done",
                 !.hook = calls[c].hook, !.aborted = calls[c].aborted]]
  /\ UNCHANGED <<dataVars, storage, storeVars, pathname, href, refreshVars, nCalls, gen,
                 hookVars, storeThrew>>

\* ------------------------------------------------- useIdeas (useIdeas.ts)
\* controller.abort() on the controllers in ids
AbortAll(cs, ids) ==
  [c \in CallIds |-> IF c \in ids THEN [cs[c] EXCEPT !.aborted = TRUE] ELSE cs[c]]

\* fetchIdeas(signal, {silent}) up to its first await, as fetch c
StartFetch(c, isSilent, toAbort) ==
  LET rec == NewCall(TRUE, isSilent)
  IN  /\ nCalls' = c
      /\ calls' = [AbortAll(calls, toAbort) EXCEPT ![c] = rec]
      /\ loading' = IF rec.exc # "none" THEN (IF isSilent THEN loading ELSE FALSE)
                    ELSE IF isSilent THEN loading ELSE TRUE
      /\ error' = [by |-> c, val |-> IF rec.exc # "none" THEN "err" ELSE "null"]
      /\ abortRef' = c
      /\ storeThrew' = (storeThrew \/ getAccessToken = Throw)
      /\ UNCHANGED <<dataVars, storage, storeVars, pathname, href, refreshVars, gen,
                     data, mounted>>

\* the effect of useIdeas runs (mount, or a changed query): the cleanup of the
\* previous run, then the body
EffectRun ==
  /\ ~MicrotaskPending
  /\ mounted
  /\ nCalls < MaxCalls
  /\ effectCtl' = nCalls + 1
  /\ StartFetch(nCalls + 1, FALSE, {effectCtl, abortRef} \ {0})

\* refetch({silent})
Refetch ==
  /\ ~MicrotaskPending
  /\ mounted
  /\ effectCtl # 0
  /\ nCalls < MaxCalls
  /\ UNCHANGED effectCtl
  /\ \E isSilent \in BOOLEAN : StartFetch(nCalls + 1, isSilent, {abortRef} \ {0})

\* the component unmounts: the cleanup of the last effect run
Unmount ==
  /\ ~MicrotaskPending
  /\ mounted
  /\ effectCtl # 0
  /\ mounted' = FALSE
  /\ calls' = AbortAll(calls, {effectCtl})
  /\ UNCHANGED <<dataVars, storage, storeVars, pathname, href, refreshVars, nCalls, gen,
                 data, error, loading, abortRef, effectCtl, storeThrew>>

\* ------------------------------------------ JavaScript values and strings
\* A string is a sequence of one-character strings.  A value is a record:
\* t is its type tag, a number is n * 10^e (e is 0 or 9, so that numbers
\* around 10^12 stay within the integers of the model), s is the text of a
\* string.  An object-valued field is modelled by its numeric `total` entry:
\* s = <<"total">> when it has one (n), s = <<>> when it has none.
JsVal(t, n, e, s) == [t |-> t, n |-> n, e |-> e, s |-> s]

UndefV  == JsVal("undefined", 0, 0, <<>>)
NullV   == JsVal("null", 0, 0, <<>>)
NaNV    == JsVal("NaN", 0, 0, <<>>)
InfV    == JsVal("Infinity", 0, 0, <<>>)
Num(n)  == JsVal("number", n, 0, <<>>)
Giga(n) == JsVal("number", n, 9, <<>>)
Str(s)  == JsVal("string", 0, 0, s)
BoolV(b) == JsVal("boolean", IF b THEN 1 ELSE 0, 0, <<>>)
ObjTotal(n) == JsVal("object", n, 0, <<"total">>)
ObjEmpty == JsVal("object", 0, 0, <<>>)

TypeOf(v) ==
  IF v.t \in {"number", "NaN", "Infinity"} THEN "number"
  ELSE IF v.t = "null" THEN "object"
  ELSE v.t

\* candidate === undefined || candidate === null
Nullish(v) == v.t \in {"undefined", "null"}

\* a ?? b
Coalesce(a, b) == IF Nullish(a) THEN b ELSE a

Digits == <<"0", "1", "2", "3", "4", "5", "6", "7", "8", "9">>

IsDigit(c) == \E i \in 1..10 : Digits[i] = c

RECURSIVE DigitsToNat(_)
DigitsToNat(s) ==
  IF s = <<>> THEN 0
  ELSE 10 * DigitsToNat(SubSeq(s, 1, Len(s) - 1))
         + (CHOOSE i \in 1..10 : Digits[i] = s[Len(s)]) - 1

RECURSIVE NatToDigits(_)
NatToDigits(n) ==
  IF n < 10 THEN <<Digits[n + 1]>>
  ELSE NatToDigits(n \div 10) \o <<Digits[(n % 10) + 1]>>

RECURSIVE Zeros(_)
Zeros(k) == IF k = 0 THEN <<>> ELSE <<"0">> \o Zeros(k - 1)

\* String.prototype.trim (the white space of the model is the blank)
RECURSIVE Trim(_)
Trim(s) ==
  IF s # <<>> /\ Head(s) = " " THEN Trim(Tail(s))
  ELSE IF s # <<>> /\ s[Len(s)] = " " THEN Trim(SubSeq(s, 1, Len(s) - 1))
  ELSE s

\* s.replace(a, b) with a one-character pattern: the first occurrence only
RECURSIVE ReplaceFirst(_, _, _)
ReplaceFirst(s, a, b) ==
  IF s = <<>> THEN <<>>
  ELSE IF Head(s) = a THEN <<b>> \o Tail(s)
  ELSE <<Head(s)>> \o ReplaceFirst(Tail(s), a, b)

\* s.split(sep) with a one-character separator
RECURSIVE Split(_, _)
Split(s, sep) ==
  IF \A i \in 1..Len(s) : s[i] # sep THEN <<s>>
  ELSE LET k == CHOOSE i \in 1..Len(s) :
                  s[i] = sep /\ \A j \in 1..(i - 1) : s[j] # sep
       IN <<SubSeq(s, 1, k - 1)>> \o Split(SubSeq(s, k + 1, Len(s)), sep)

\* String(v); the text of the number n * 10^e is the digits of n and e zeros
StringOf(v) ==
  CASE v.t = "undefined" -> <<"u","n","d","e","f","i","n","e","d">>
    [] v.t = "null"      -> <<"n","u","l","l">>
    [] v.t = "NaN"       -> <<"N","a","N">>
    [] v.t = "Infinity"  -> <<"I","n","f","i","n","i","t","y">>
    [] v.t = "number"    ->
         IF v.n = 0 THEN <<"0">>
         ELSE IF v.n < 0 THEN <<"-">> \o NatToDigits(0 - v.n) \o Zeros(v.e)
         ELSE NatToDigits(v.n) \o Zeros(v.e)
    [] v.t = "boolean"   -> IF v.n = 1 THEN <<"t","r","u","e">>
                                       ELSE <<"f","a","l","s","e">>
    [] v.t = "string"    -> v.s
    [] v.t = "object"    -> <<"[","o","b","j","e","c","t"," ",
                              "O","b","j","e","c","t","]">>

\* Boolean(v)
ToBoolean(v) ==
  CASE v.t \in {"undefined", "null", "NaN"} -> FALSE
    [] v.t = "number"   -> v.n # 0
    [] v.t = "boolean"  -> v.n = 1
    [] v.t = "string"   -> v.s # <<>>
    [] v.t \in {"Infinity", "object"} -> TRUE

\* Number(s) for a string: white space is trimmed, the empty string is 0, an
\* optionally signed run of decimal digits is its value, any other text of
\* the model's alphabet is NaN
StringToNumber(s) ==
  LET t == Trim(s)
      AllDigits(u) == \A i \in 1..Len(u) : IsDigit(u[i])
  IN IF t = <<>> THEN Num(0)
     ELSE IF AllDigits(t) THEN Num(DigitsToNat(t))
     ELSE IF Head(t) \in {"-", "+"} /\ Len(t) > 1 /\ AllDigits(Tail(t))
       THEN Num(IF Head(t) = "-" THEN 0 - DigitsToNat(Tail(t))
                                 ELSE DigitsToNat(Tail(t)))
     ELSE NaNV

\* Number(v)
ToNumber(v) ==
  CASE v.t = "undefined" -> NaNV
    [] v.t = "null"      -> Num(0)
    [] v.t = "boolean"   -> Num(v.n)
    [] v.t = "string"    -> StringToNumber(v.s)
    [] v.t = "object"    -> NaNV
    [] v.t \in {"number", "NaN", "Infinity"} -> v

\* a || b
OrElse(a, b) == IF ToBoolean(a) THEN a ELSE b

\* ------------------------------------------------- instants and the parser
\* A Date.  kind "ms": the time value n * 10^e milliseconds; kind "local" /
\* "utc": the instant named by the civil fields c = <<y, mo, d, H, Mi, S,
\* frac>> in local time / in UTC moved by n minutes of offset; kind
\* "parsed": what the engine's own parser made of the text s.  An invalid
\* Date (time value NaN) is the one value InvalidDate.
DateRec(valid, kind, n, e, c, s) ==
  [valid |-> valid, kind |-> kind, n |-> n, e |-> e, c |-> c, s |-> s]

InvalidDate == DateRec(FALSE, "invalid", 0, 0, <<>>, <<>>)

\* new Date(0)
Epoch == DateRec(TRUE, "ms", 0, 0, <<>>, <<>>)

\* 1e12 in units of 10^9
TsThreshold == 1000

\* input * 1000
Times1000(v) == IF v.t = "number" THEN JsVal("number", v.n * 1000, v.e, <<>>)
                ELSE v

\* new Date(ms): a time value beyond 8.64e15 ms, NaN or Infinity gives an
\* invalid Date
NewDateOfNumber(v) ==
  IF v.t = "number" /\ (v.e = 0 \/ (v.n <= 8640000 /\ v.n >= 0 - 8640000))
    THEN DateRec(TRUE, "ms", v.n, v.e, <<>>, <<>>)
    ELSE InvalidDate

\* /^\d{4}-\d{2}-\d{2}$/.test(s)
IsBareDate(s) ==
  /\ Len(s) = 10
  /\ \A i \in {1, 2, 3, 4, 6, 7, 9, 10} : IsDigit(s[i])
  /\ s[5] = "-"
  /\ s[8] = "-"

\* new Date(`${normalized}T00:00:00`) for a bare date: the date-time form
\* without offset is local time, and a month outside 1..12 or a day outside
\* 1..31 makes the text unparseable (a day 29..31 beyond the month's length
\* depends on the engine and is not among the inputs)
NewDateOfBareDate(s) ==
  LET y  == DigitsToNat(SubSeq(s, 1, 4))
      mo == DigitsToNat(SubSeq(s, 6, 7))
      d  == DigitsToNat(SubSeq(s, 9, 10))
  IN IF mo \in 1..12 /\ d \in 1..31
       THEN DateRec(TRUE, "local", 0, 0, <<y, mo - 1, d, 0, 0, 0, 0>>, <<>>)
       ELSE InvalidDate

\* new Date(y, mo, d, H, Mi, S, frac) and Date.UTC(y, mo, d, H, Mi, S, frac)
\* moved by offsetMin: fields beyond their range roll over, a NaN field
\* gives an invalid Date
NewDateOfFields(kind, fields, offsetMin) ==
  IF \A i \in 1..Len(fields) : fields[i].t = "number"
    THEN DateRec(TRUE, kind, offsetMin, 0,
                 [i \in 1..Len(fields) |-> fields[i].n], <<>>)
    ELSE InvalidDate

\* rest.match(/(Z|[+-]\d{2}:\d{2})$/)
extractTimeAndZone(rest) ==
  LET n == Len(rest) IN
  IF n >= 1 /\ rest[n] = "Z"
    THEN [timeStr |-> SubSeq(rest, 1, n - 1), tz |-> <<"Z">>]
  ELSE IF /\ n >= 6
          /\ rest[n - 5] \in {"+", "-"}
          /\ IsDigit(rest[n - 4]) /\ IsDigit(rest[n - 3])
          /\ rest[n - 2] = ":"
          /\ IsDigit(rest[n - 1]) /\ IsDigit(rest[n])
    THEN [timeStr |-> SubSeq(rest, 1, n - 6), tz |-> SubSeq(rest, n - 5, n)]
  ELSE [timeStr |-> rest, tz |-> <<>>]

parseDateWithOptionalTime(datePart, rest) ==
  LET \* parts[i] of a destructured split: undefined beyond the end
      Part(parts, i) == IF i <= Len(parts) THEN Str(parts[i]) ELSE UndefV
      \* String(fracRaw).slice(0, 3).padEnd(3, '0')
      PadFrac(s) == LET t == SubSeq(s, 1, IF Len(s) < 3 THEN Len(s) ELSE 3)
                    IN t \o Zeros(3 - Len(t))
      ymd == Split(datePart, "-")
      y   == ToNumber(Str(ymd[1]))
      mo  == LET m == ToNumber(Str(ymd[2]))
             IN IF m.t = "number" THEN Num(m.n - 1) ELSE m
      d   == ToNumber(Str(ymd[3]))
  IN
  IF rest = <<>>
    THEN NewDateOfFields("local", <<y, mo, d, Num(0), Num(0), Num(0), Num(0)>>, 0)
  ELSE
    LET tzr   == extractTimeAndZone(rest)
        hms   == Split(tzr.timeStr, ":")
        hPart == Part(hms, 1)
        mPart == Part(hms, 2)
        sPart == IF Part(hms, 3).t = "undefined" THEN Str(<<"0">>)
                 ELSE Part(hms, 3)
        H     == ToNumber(OrElse(hPart, Num(0)))
        Mi    == ToNumber(OrElse(mPart, Num(0)))
        sf    == Split(sPart.s, ".")
        S     == IF ToBoolean(sPart)
                   THEN ToNumber(OrElse(Part(sf, 1), Num(0)))
                   ELSE Num(0)
        frac  == IF ToBoolean(sPart) /\ ToBoolean(Part(sf, 2))
                   THEN StringToNumber(PadFrac(Part(sf, 2).s))
                   ELSE Num(0)
        fields == <<y, mo, d, H, Mi, S, frac>>
    IN
    IF tzr.tz = <<>> THEN NewDateOfFields("local", fields, 0)
    ELSE IF tzr.tz = <<"Z">> THEN NewDateOfFields("utc", fields, 0)
    ELSE
      LET sign == IF Head(tzr.tz) = "-" THEN 0 - 1 ELSE 1
          hm   == Split(Tail(tzr.tz), ":")
          tzh  == StringToNumber(hm[1]).n
          tzm  == StringToNumber(hm[2]).n
      IN NewDateOfFields("utc", fields, sign * (tzh * 60 + tzm))

\* parses: whether the engine's own Date parser accepts the text
parseTimestampFromString(raw, parses) ==
  LET normalized == ReplaceFirst(Trim(raw), ",", ".")
      datePart   == SubSeq(normalized, 1, IF Len(normalized) < 10
                                            THEN Len(normalized) ELSE 10)
  IN
  IF IsBareDate(normalized) THEN NewDateOfBareDate(normalized)
  ELSE IF /\ IsBareDate(datePart)
          /\ \/ Len(normalized) = 10
             \/ normalized[11] = "T"
             \/ normalized[11] = " "
    THEN parseDateWithOptionalTime(
           datePart,
           SubSeq(normalized, IF Len(normalized) = 10 THEN 11 ELSE 12,
                  Len(normalized)))
  ELSE IF parses
    THEN DateRec(TRUE, "parsed", 0, 0, <<>>, normalized)
    ELSE Epoch

parseTimestamp(input, parses) ==
  IF input.t = "date"
    THEN IF input.s = <<>> THEN DateRec(TRUE, "ms", input.n, input.e, <<>>, <<>>)
         ELSE InvalidDate
  ELSE IF TypeOf(input) = "number"
    THEN LET above == \/ input.t = "Infinity"
                      \/ input.t = "number" /\ input.e = 9
                                            /\ input.n > TsThreshold
         IN NewDateOfNumber(IF above THEN input ELSE Times1000(input))
  ELSE IF TypeOf(input) = "string"
    THEN parseTimestampFromString(input.s, parses)
  ELSE Epoch

\* ------------------------------------------------- the payload normalizer
\* The properties mapCommunityIdeaPayload reads.  "a.b" is the value of the
\* optional chain payload.a?.b (undefined when payload.a is absent).
IdFields == <<"id", "ideaId", "idea_id", "uuid", "_id">>
TimeFields == <<"executionTimeMs", "execution_time_ms", "responseTime",
                "durationMs", "metrics.executionTime", "stats.executionTime">>
AuthorFields == <<"userName", "username", "user_name", "author", "owner",
                  "createdBy", "user.name", "user.username", "user.fullName",
                  "metadata.author", "metadata.userName">>
TokenFields == <<"tokens", "tokenCount", "tokensUsed", "token_usage",
                 "usage.totalTokens", "tokenStats.total", "stats.tokens",
                 "metadata.tokens">>
ModelFields == <<"modelUsed", "model_used", "model">>
TextFields == <<"theme", "content", "context", "timestamp", "createdAt",
                "created_at", "isFavorite">>

Fields ==
  UNION {{seq[i] : i \in 1..Len(seq)} :
           seq \in {IdFields, TimeFields, AuthorFields, TokenFields,
                    ModelFields, TextFields}}

\* An element of a fetched collection: null, a primitive or an object.
\* t is "null", "number", "string" or "object"; f holds an object's
\* properties (UndefV for an absent one).
NoFields == [k \in Fields |-> UndefV]
NullPayload == [t |-> "null", f |-> NoFields]
PrimitivePayload(t) == [t |-> t, f |-> NoFields]
ObjectPayload(f) == [t |-> "object", f |-> f]

\* payload.name: a primitive has none of these properties
Get(p, name) == IF p.t = "object" THEN p.f[name] ELSE UndefV

\* the candidates of a list, in order
Candidates(p, names) == [i \in 1..Len(names) |-> Get(p, names[i])]

\* the k-th identifier crypto.randomUUID() returns (every one is new)
generateSecureIdeaId(k) == [synth |-> TRUE, k |-> k, s |-> <<>>]

ensureIdeaId(p, k) ==
  LET RECURSIVE FirstUsable(_)
      FirstUsable(cands) ==
        IF cands = <<>> THEN generateSecureIdeaId(k)
        ELSE IF Nullish(Head(cands)) THEN FirstUsable(Tail(cands))
        ELSE LET str == Trim(StringOf(Head(cands)))
             IN IF str # <<>> THEN [synth |-> FALSE, k |-> 0, s |-> str]
                ELSE FirstUsable(Tail(cands))
  IN FirstUsable(Candidates(p, IdFields))

extractFromObject(obj) ==
  IF obj.s = <<"total">> THEN Num(obj.n) ELSE UndefV

parseNumericString(s) ==
  LET trimmed == Trim(s)
      parsed  == StringToNumber(trimmed)
  IN IF trimmed = <<>> THEN UndefV
     ELSE IF parsed.t = "NaN" THEN UndefV ELSE parsed

extractNumber(v) ==
  IF TypeOf(v) = "number" /\ v.t = "number" THEN v
  ELSE IF TypeOf(v) = "string" THEN parseNumericString(v.s)
  ELSE IF TypeOf(v) = "object" /\ v.t # "null" THEN extractFromObject(v)
  ELSE UndefV

RECURSIVE pickNumericValue(_)
pickNumericValue(values) ==
  IF values = <<>> THEN UndefV
  ELSE IF extractNumber(Head(values)) # UndefV
    THEN extractNumber(Head(values))
  ELSE pickNumericValue(Tail(values))

pickAuthorFromPayload(p) ==
  LET RECURSIVE First(_)
      First(cands) ==
        IF cands = <<>> THEN UndefV
        ELSE LET c == Head(cands) IN
          IF Nullish(c) THEN First(Tail(cands))
          ELSE IF TypeOf(c) = "string"
            THEN IF Trim(c.s) # <<>> THEN Str(Trim(c.s))
                 ELSE First(Tail(cands))
          ELSE IF TypeOf(c) \in {"number", "boolean"} THEN Str(StringOf(c))
          ELSE First(Tail(cands))
  IN First(Candidates(p, AuthorFields))

pickModelFromPayload(p) ==
  LET RECURSIVE First(_)
      First(cands) ==
        IF cands = <<>> THEN UndefV
        ELSE IF TypeOf(Head(cands)) # "string" THEN First(Tail(cands))
        ELSE IF Trim(Head(cands).s) # <<>> THEN Str(Trim(Head(cands).s))
        ELSE First(Tail(cands))
  IN First(Candidates(p, ModelFields))

sanitizeQuotedText(text) ==
  IF TypeOf(text) # "string" THEN StringOf(Coalesce(text, Str(<<>>)))
  ELSE LET t == Trim(text.s)
           pairs == <<"\"", "\"", "'">>
       IN
    IF /\ Len(t) >= 2
       /\ \E i \in 1..Len(pairs) : Head(t) = pairs[i] /\ t[Len(t)] = pairs[i]
      THEN SubSeq(t, 2, Len(t) - 1)
      ELSE t

\* the letters of the model's alphabet
UpperCase == <<"A", "B", "I", "T", "Z">>
LowerCase == <<"a", "b", "i", "t", "z">>

\* c.toUpperCase() / c.toLowerCase() of one character: from |-> to
ChangeCase(c, from, to) ==
  IF \E i \in 1..Len(from) : from[i] = c
    THEN to[CHOOSE i \in 1..Len(from) : from[i] = c]
    ELSE c

capitalizeFirst(s) ==
  IF s = <<>> THEN s
  ELSE <<ChangeCase(Head(s), LowerCase, UpperCase)>> \o Tail(s)

normalizeThemeLabel(input) ==
  IF TypeOf(input) # "string" THEN StringOf(Coalesce(input, Str(<<>>)))
  ELSE capitalizeFirst([i \in 1..Len(Trim(input.s)) |->
                          ChangeCase(Trim(input.s)[i], UpperCase, LowerCase)])

\* what a call that threw leaves in place of a record
NoIdea ==
  [id |-> [synth |-> FALSE, k |-> 0, s |-> <<>>], theme |-> <<>>,
   content |-> <<>>, context |-> <<>>, timestamp |-> InvalidDate,
   isFavorite |-> FALSE, responseTime |-> UndefV, author |-> UndefV,
   tokens |-> UndefV, modelUsed |-> UndefV]

\* clock is what Date.now() returns, k numbers the identifier a synthesized
\* id gets.  Reading a property of null throws a TypeError.
mapCommunityIdeaPayload(p, clock, parses, k) ==
  IF p.t = "null" THEN [threw |-> TRUE, idea |-> NoIdea]
  ELSE
    LET sourceTs ==
          Coalesce(Coalesce(Coalesce(Get(p, "timestamp"), Get(p, "createdAt")),
                            Get(p, "created_at")),
                   Giga(clock))
    IN [threw |-> FALSE,
        idea |->
          [id           |-> ensureIdeaId(p, k),
           theme        |-> normalizeThemeLabel(Get(p, "theme")),
           content      |-> sanitizeQuotedText(Get(p, "content")),
           context      |-> sanitizeQuotedText(Get(p, "context")),
           timestamp    |-> parseTimestamp(sourceTs, parses),
           isFavorite   |-> ToBoolean(Get(p, "isFavorite")),
           responseTime |-> pickNumericValue(Candidates(p, TimeFields)),
           author       |-> pickAuthorFromPayload(p),
           tokens       |-> pickNumericValue(Candidates(p, TokenFields)),
           modelUsed    |-> pickModelFromPayload(p)]]

\* ------------------------------------------------- the pagination adapter
\* The JSON body of a history response.  t is "array" (items are its
\* elements), "object" or "null"/"number"/"string".  arrays lists an
\* object's array-valued properties in insertion order, each <<key, items>>;
\* tot holds its totalElements, totalPages, size and number properties
\* (UndefV for an absent one).
NoTotals ==
  [totalElements |-> UndefV, totalPages |-> UndefV, size |-> UndefV,
   number |-> UndefV]
ArrayBody(items) ==
  [t |-> "array", items |-> items, arrays |-> <<>>, tot |-> NoTotals]
ObjectBody(arrays, tot) ==
  [t |-> "object", items |-> <<>>, arrays |-> arrays, tot |-> tot]
PrimitiveBody(t) ==
  [t |-> t, items |-> <<>>, arrays |-> <<>>, tot |-> NoTotals]

\* Array.isArray(obj[key])
HasArray(b, key) == \E i \in 1..Len(b.arrays) : b.arrays[i][1] = key

ArrayAt(b, key) ==
  b.arrays[CHOOSE i \in 1..Len(b.arrays) : b.arrays[i][1] = key][2]

\* What fetchIdeasFromAPI returns or throws.  kind is "none" (no call yet),
\* "threw", "array" (a bare Idea[]) or "page" (a PaginatedIdeasResponse);
\* an array has no totals (UndefV).
PageRec(kind, err, content, te, tp, sz, nb) ==
  [kind |-> kind, err |-> err, content |-> content, totalElements |-> te,
   totalPages |-> tp, size |-> sz, number |-> nb]

NoPage == PageRec("none", "", <<>>, UndefV, UndefV, UndefV, UndefV)
Thrown(err) == PageRec("threw", err, <<>>, UndefV, UndefV, UndefV, UndefV)
IdeaArray(content) ==
  PageRec("array", "", content, UndefV, UndefV, UndefV, UndefV)

\* items.map((payload) => mapCommunityIdeaPayload(payload)): the results in
\* order, k identifiers having been generated before
RECURSIVE MapItems(_, _, _, _)
MapItems(items, clock, parses, k) ==
  IF items = <<>> THEN <<>>
  ELSE LET r == mapCommunityIdeaPayload(Head(items), clock, parses, k + 1)
       IN <<r>> \o MapItems(Tail(items), clock, parses,
                            IF ~r.threw /\ r.idea.id.synth THEN k + 1 ELSE k)

\* the callback threw for some element: map() throws
MapThrew(rs) == \E i \in 1..Len(rs) : rs[i].threw

Ideas(rs) == [i \in 1..Len(rs) |-> rs[i].idea]

\* identifiers generated by the elements mapped before the first throw
RECURSIVE Synthesized(_)
Synthesized(rs) ==
  IF rs = <<>> \/ Head(rs).threw THEN 0
  ELSE (IF Head(rs).idea.id.synth THEN 1 ELSE 0) + Synthesized(Tail(rs))

isPaginatedResponse(b) ==
  /\ b.t = "object"
  /\ HasArray(b, "content")
  /\ b.tot.totalElements # UndefV
  /\ b.tot.totalPages # UndefV

mapPaginatedResponse(b, clock, parses, k) ==
  LET content == IF HasArray(b, "content") THEN ArrayAt(b, "content") ELSE <<>>
      rs      == MapItems(content, clock, parses, k)
  IN IF MapThrew(rs) THEN Thrown("TypeError")
     ELSE PageRec("page", "", Ideas(rs),
                  OrElse(ToNumber(b.tot.totalElements), Num(0)),
                  OrElse(ToNumber(b.tot.totalPages), Num(1)),
                  OrElse(ToNumber(b.tot.size), Num(Len(content))),
                  OrElse(ToNumber(b.tot.number), Num(0)))

candidateKeys == <<"data", "items", "results", "history", "ideas">>

extractArrayPayloadNothing(b) == <<>>
extractArrayPayload(b) ==
  IF b.t = "array" THEN b.items
  ELSE IF b.t = "object" /\ \E j \in 1..Len(candidateKeys) :
                              HasArray(b, candidateKeys[j])
    THEN ArrayAt(b, candidateKeys[CHOOSE j \in 1..Len(candidateKeys) :
                      /\ HasArray(b, candidateKeys[j])
                      /\ \A h \in 1..(j - 1) : ~HasArray(b, candidateKeys[h])])
  ELSE IF b.t = "object" /\ b.arrays # <<>> THEN b.arrays[1][2]
  ELSE <<>>

\* fetchIdeasFromAPI from the response of apiFetch on
fetchIdeasFromAPI(status, b, clock, parses, k) ==
  IF status = 404 THEN IdeaArray(<<>>)
  ELSE IF status \notin 200..299 THEN Thrown("Erro")
  ELSE IF isPaginatedResponse(b)
    THEN mapPaginatedResponse(b, clock, parses, k)
  ELSE LET rs == MapItems(extractArrayPayload(b), clock, parses, k)
       IN IF MapThrew(rs) THEN Thrown("TypeError") ELSE IdeaArray(Ideas(rs))

\* ------------------------------------------------------------- the inputs
\* a well-formed element
GoodPayload ==
  ObjectPayload([NoFields EXCEPT
    !["id"] = Num(42), !["theme"] = Str(<<"a", "i">>),
    !["content"] = Str(<<"\"", "a", "b", "\"">>),
    !["timestamp"] = Str(<<"2", "0", "2", "4", "-", "0", "3", "-", "0", "1">>),
    !["isFavorite"] = BoolV(TRUE), !["model"] = Str(<<"b">>)])

\* an element whose fields have the wrong types
WrongTypedPayload ==
  ObjectPayload([NoFields EXCEPT
    !["id"] = ObjEmpty, !["theme"] = Num(5), !["content"] = ObjEmpty,
    !["timestamp"] = BoolV(TRUE), !["isFavorite"] = Str(<<"a">>),
    !["tokens"] = Str(<<"a", "b">>), !["model"] = Num(5)])

\* The payloads handed to the normalizer: null, primitives, and the objects
\* a JSON response can carry.
Payloads ==
  LET \* timestamp texts: a bare date, a bare date with month 13 and day
      \* 45, date and time in UTC, date and time separated by a blank, a
      \* fraction with a comma and an offset, a time part that is no
      \* number, plain text and the empty text
      TsTexts ==
        {<<"2", "0", "2", "4", "-", "0", "3", "-", "0", "1">>,
         <<"2", "0", "2", "4", "-", "1", "3", "-", "4", "5">>,
         <<"2", "0", "2", "4", "-", "0", "3", "-", "0", "1", "T",
           "1", "0", ":", "2", "0", ":", "3", "0", "Z">>,
         <<"2", "0", "2", "4", "-", "0", "3", "-", "0", "1", " ",
           "1", "0", ":", "2", "0">>,
         <<"2", "0", "2", "4", "-", "0", "3", "-", "0", "1", "T",
           "1", "0", ":", "2", "0", ":", "3", "0", ",", "5", "+",
           "0", "2", ":", "0", "0">>,
         <<"2", "0", "2", "4", "-", "0", "3", "-", "0", "1", "T",
           "a", "b", ":", "z", "z">>,
         <<"a", "b">>, <<>>}
      \* absent, null, epoch seconds, numbers around 1e12, epoch
      \* milliseconds, a number beyond the range of Date (1e16), the
      \* Infinity that 1e400 parses to, and values of another type
      TsSamples ==
        {UndefV, NullV, Num(0), Num(86400), Giga(1), Giga(999), Giga(1000),
         Giga(1001), Giga(1762), Giga(10000000), InfV, BoolV(TRUE), ObjEmpty}
          \cup {Str(t) : t \in TsTexts}
      TsPayloads ==
        {ObjectPayload([NoFields EXCEPT ![w] = ts]) :
           ts \in TsSamples, w \in {"timestamp", "createdAt", "created_at"}}
      FieldPayloads ==
        {ObjectPayload([NoFields EXCEPT !["id"] = i, !["uuid"] = u,
                                        !["theme"] = th, !["tokenCount"] = tk,
                                        !["user.name"] = a]) :
           i  \in {UndefV, NullV, Num(42), Str(<<" ">>)},
           u  \in {UndefV, Str(<<"a", "1">>)},
           th \in {UndefV, Str(<<" ", "A", "I", " ">>), Num(5)},
           tk \in {UndefV, Num(12), Str(<<"1", "2">>), ObjTotal(7)},
           a  \in {UndefV, Str(<<"a", "b">>), BoolV(TRUE)}}
  IN {NullPayload, PrimitivePayload("number"), PrimitivePayload("string"),
      GoodPayload, WrongTypedPayload}
       \cup TsPayloads \cup FieldPayloads

\* The JSON bodies of the history response: bare arrays, envelopes, objects
\* that are no envelope (an array under a well-known key, under another key,
\* under `content` without the totals, no array at all) and primitives.
Bodies ==
  LET SeqsUpTo(S, n) == UNION {[1..k -> S] : k \in 0..n}
      PageItems ==
        {NullPayload, PrimitivePayload("number"), ObjectPayload(NoFields),
         GoodPayload, WrongTypedPayload}
      Envelopes ==
        {ObjectBody(<<<<"content", c>>>>,
                    [totalElements |-> te, totalPages |-> tp, size |-> sz,
                     number |-> nb]) :
           c  \in SeqsUpTo({GoodPayload, NullPayload}, MaxItems),
           te \in {NullV, Num(0), Num(42), Num(0 - 3), Str(<<"7">>)},
           tp \in {NullV, Num(0), Num(5), Num(0 - 1), Str(<<"a", "b">>)},
           sz \in {UndefV, Num(0), Num(1), Num(10)},
           nb \in {UndefV, Num(0), Num(2)}}
      Wrappers ==
        {ObjectBody(<<<<"list", <<NullPayload>>>>, <<"ideas", <<GoodPayload>>>>>>,
                    NoTotals),
         ObjectBody(<<<<"list", <<GoodPayload>>>>>>, NoTotals),
         ObjectBody(<<<<"content", <<GoodPayload>>>>>>, NoTotals),
         ObjectBody(<<>>, NoTotals),
         PrimitiveBody("null"), PrimitiveBody("string")}
  IN {ArrayBody(items) : items \in SeqsUpTo(PageItems, MaxItems)}
       \cup Envelopes \cup Wrappers

\* ------------------------------------------------------------ the system
\* no payload is being normalized and no history response handled
DataIdle ==
  /\ payload = NullPayload
  /\ now = 1762
  /\ engineParses = FALSE
  /\ nIds = 0
  /\ mapped = <<>>
  /\ body = PrimitiveBody("null")
  /\ resStatus = 0
  /\ page = NoPage
  /\ nFetch = 0

\* the steps of apiFetch calls and of the refresh operation
ClientStep ==
  \/ \E c \in CallIds : FirstResponse(c)
  \/ \E c \in CallIds : ResumeAfterRefresh(c)
  \/ \E c \in CallIds : RetryResponse(c)
  \/ \E c \in CallIds : NetworkError(c)
  \/ \E c \in CallIds : CallerContinues(c)
  \/ \E id \in CallIds : RefreshResponse(id)
  \/ \E id \in CallIds : RefreshNetworkError(id)
  \/ \E id \in CallIds : RefreshBody(id)

\* The authenticated client under concurrent service calls, from the stored
\* credentials of a session (or none) on any page.
Init == InitIn({"ok"}, Paths) /\ DataIdle

Next ==
  \/ ServiceCall
  \/ ClientStep

Spec == Init /\ [][Next]_vars

\* The collection-fetch hook over the authenticated client.
InitHook == InitIn({"ok"}, Paths) /\ DataIdle

NextHook ==
  \/ EffectRun
  \/ Refetch
  \/ Unmount
  \/ \E c \in CallIds : BodyRead(c)
  \/ \E c \in CallIds : AbortReject(c)
  \/ ClientStep

SpecHook == InitHook /\ [][NextHook]_vars

\* The credential store in every kind of browser context, with every exported
\* credential operation (the login and logout pages), under service calls.
InitStore == InitIn(StorageModes, {"/"}) /\ DataIdle

StoreServiceCall ==
  /\ nCalls < MaxStoreCalls
  /\ ServiceCall

NextStore ==
  \/ SetAccessToken
  \/ SetRefreshToken
  \/ SetAuthToken
  \/ SetAuthTokens
  \/ ClearAuthTokens
  \/ ClearAuthToken
  \/ StoreServiceCall
  \/ ClientStep

SpecStore == InitStore /\ [][NextStore]_vars


\* The normalizer applied to one raw payload, under a running clock.
InitNorm ==
  /\ InitIn({"ok"}, {"/"})
  /\ gen = 0
  /\ payload \in Payloads
  /\ engineParses \in BOOLEAN
  /\ now = 1762
  /\ nIds = 0
  /\ mapped = <<>>
  /\ body = PrimitiveBody("null")
  /\ resStatus = 0
  /\ page = NoPage
  /\ nFetch = 0

\* one call mapCommunityIdeaPayload(payload)
MapPayload ==
  /\ Len(mapped) < MaxMaps
  /\ LET r == mapCommunityIdeaPayload(payload, now, engineParses, nIds + 1)
     IN /\ mapped' = Append(mapped, r)
        /\ nIds' = IF ~r.threw /\ r.idea.id.synth THEN nIds + 1 ELSE nIds
  /\ UNCHANGED <<clientVars, pageVars, payload, now, engineParses>>

\* time passes
ClockTick ==
  /\ now < 1762 + MaxTicks
  /\ now' = now + 1
  /\ UNCHANGED <<clientVars, pageVars, payload, engineParses, nIds, mapped>>

NextNorm ==
  \/ MapPayload
  \/ ClockTick

SpecNorm == InitNorm /\ [][NextNorm]_vars

\* fetchIdeasFromAPI from the response of the history request on.  None of
\* the bodies carries a text that reaches the engine's Date parser.
InitPage ==
  /\ InitIn({"ok"}, {"/"})
  /\ gen = 0
  /\ body \in Bodies
  /\ resStatus = 0
  /\ page = NoPage
  /\ nFetch = 0
  /\ payload = NullPayload
  /\ engineParses = FALSE
  /\ now = 1762
  /\ nIds = 0
  /\ mapped = <<>>

\* the response is ok: its body is read and adapted
HistoryBody ==
  /\ nFetch < MaxFetches
  /\ \E status \in {s \in Statuses : s \in 200..299} :
       /\ resStatus' = status
       /\ page' = fetchIdeasFromAPI(status, body, now, engineParses, nIds)
  /\ nIds' = IF isPaginatedResponse(body)
               THEN nIds + Synthesized(MapItems(ArrayAt(body, "content"), now,
                                                engineParses, nIds))
               ELSE nIds + Synthesized(MapItems(extractArrayPayload(body), now,
                                                engineParses, nIds))
  /\ nFetch' = nFetch + 1
  /\ UNCHANGED <<clientVars, payload, now, engineParses, mapped, body>>

\* the response is a 404 or another failure: no body is read
HistoryNoBody ==
  /\ nFetch < MaxFetches
  /\ \E status \in {s \in Statuses : s \notin 200..299} :
       /\ resStatus' = status
       /\ page' = fetchIdeasFromAPI(status, body, now, engineParses, nIds)
  /\ nFetch' = nFetch + 1
  /\ UNCHANGED <<clientVars, payload, now, engineParses, nIds, mapped, body>>

NextPage ==
  \/ HistoryBody
  \/ HistoryNoBody

SpecPage == InitPage /\ [][NextPage]_vars


\* ================================================================ claims
\* the refresh operations whose request to POST /api/auth/refresh is
\* outstanding (the response or its body has not arrived)
InFlightOps == {id \in CallIds : rop[id].st \in {"fetch", "json"}}

NoRedirectPage == pathname = "/login" \/ pathname = "/register"

CredentialsAbsent == access = Null /\ refresh = Null

\* C1: in every reachable state at most one refresh request is outstanding,
\* and every caller that is waiting for a refresh that has not settled waits
\* for that one outstanding operation.
C1_SingleFlight ==
  /\ Cardinality(InFlightOps) <= 1
  /\ \A c \in CallIds :
       (calls[c].pc = "waitRefresh" /\ rop[calls[c].op].st # "settled")
         => calls[c].op \in InFlightOps

\* two callers wait for the same outstanding refresh
C1_Witness ==
  /\ calls[1].pc = "waitRefresh"
  /\ calls[2].pc = "waitRefresh"
  /\ calls[1].op = calls[2].op
  /\ calls[1].op \in InFlightOps

\* C2: two concurrent calls sent with the same access credential that each
\* received a 401, with no refresh having failed, are served by one and the
\* same refresh operation, the only one made, and retry with one credential.
C2_ExactlyOneRefresh ==
  \A c1, c2 \in CallIds :
    ( /\ c1 # c2
      /\ calls[c1].tok > 0
      /\ calls[c1].tok = calls[c2].tok
      /\ calls[c1].orig = 401 /\ calls[c2].orig = 401
      /\ calls[c1].refs = 1 /\ calls[c2].refs = 1
      /\ \A id \in CallIds : rop[id].st = "settled" => rop[id].val # Null )
    => /\ nOps = 1
       /\ calls[c1].op = calls[c2].op
       /\ (calls[c1].newTok # Null /\ calls[c2].newTok # Null
             => calls[c1].newTok = calls[c2].newTok)

\* C3: a call that waited for a refresh that failed returns its own original
\* response without throwing and without a second request; both credentials
\* are then absent, and location.href is /login unless the page is /login or
\* /register.
C3_RefreshFailed ==
  \A c \in CallIds :
    ( /\ calls[c].pc = "returned"
      /\ calls[c].refs = 1
      /\ rop[calls[c].op].st = "settled"
      /\ rop[calls[c].op].val = Null )
    => /\ calls[c].exc = "none"
       /\ calls[c].res = calls[c].orig
       /\ calls[c].res \in {401, 403}
       /\ calls[c].reqs = 1
       /\ CredentialsAbsent
       /\ (~NoRedirectPage => href = "/login")
       /\ (NoRedirectPage => href = "")

\* two calls waited for one refresh that failed after a request to the
\* server; the second of them has just returned its 401 and the redirect is set
C3_Witness ==
  /\ calls[1].pc = "done"
  /\ calls[2].pc = "returned"
  /\ calls[2].refs = 1
  /\ calls[2].op = 1
  /\ nOps = 1
  /\ rop[1].st = "settled" /\ rop[1].val = Null
  /\ calls[2].res = 401
  /\ href = "/login"

\* C4: a call issues at most two requests and triggers at most one refresh;
\* the retry carries the credential the refresh resolved with; a retry that
\* returned 401 or 403 is returned to the caller (not thrown), with the
\* credentials cleared and the login redirect performed.
C4_RetryOnce ==
  \A c \in CallIds :
    /\ calls[c].reqs <= 2
    /\ calls[c].refs <= 1
    /\ calls[c].pc = "retry"
         => /\ calls[c].reqs = 2
            /\ calls[c].refs = 1
            /\ calls[c].newTok # Null
            /\ calls[c].newTok = rop[calls[c].op].val
    /\ (calls[c].pc = "returned" /\ calls[c].reqs = 2 /\ calls[c].exc = "none")
         => /\ calls[c].res \in Statuses
            /\ calls[c].refs = 1
            /\ calls[c].res \in {401, 403}
                 => /\ CredentialsAbsent
                    /\ (~NoRedirectPage => href = "/login")

\* a retried request came back 403 and was returned to the caller
C4_Witness ==
  \E c \in CallIds :
    /\ calls[c].pc = "returned"
    /\ calls[c].reqs = 2
    /\ calls[c].res = 403
    /\ calls[c].exc = "none"
    /\ href = "/login"

\* C5: a first response takes the refresh path exactly when its status is 401
\* or 403 and a credential was attached; otherwise it is returned as it is and
\* the step leaves the credentials, the refresh state and the location alone.
C5_RefreshPathOnlyWithToken ==
  [][ \A c \in CallIds :
        (calls[c].pc = "first" /\ calls'[c].pc # "first" /\ calls'[c].exc = "none")
          => IF calls'[c].orig \in {401, 403} /\ calls[c].tok # Null
             THEN calls'[c].pc = "waitRefresh" /\ calls'[c].refs = 1
             ELSE /\ calls'[c].pc = "returned"
                  /\ calls'[c].res = calls'[c].orig
                  /\ calls'[c].refs = 0
                  /\ calls'[c].reqs = 1
                  /\ UNCHANGED <<access, refresh, isRefreshing, refreshPromise,
                                 rop, nOps, pathname, href>> ]_vars

\* a 401 to a request that carried no credential was returned as it is
C5_Witness ==
  \E c \in CallIds :
    /\ calls[c].pc = "returned"
    /\ calls[c].tok = Null
    /\ calls[c].orig = 401
    /\ calls[c].res = 401
    /\ calls[c].refs = 0
    /\ nOps = 0

\* C6: the refreshing flag is set only while a refresh request is outstanding,
\* so every settlement clears it; and a caller that reaches refreshAccessToken
\* when no refresh is outstanding starts a new operation instead of receiving
\* a settled one.
C6_MarkerCleared ==
  [][ /\ isRefreshing' => (refreshPromise' # 0 /\ refreshPromise' \in InFlightOps')
      /\ \A c \in CallIds :
           (calls[c].pc = "first" /\ calls'[c].pc = "waitRefresh" /\ InFlightOps = {})
             => /\ nOps' = nOps + 1
                /\ calls'[c].op = nOps'
                /\ rop[nOps'].st = "none" ]_vars

\* a refresh failed after a request; a later caller then started a new
\* operation, which completed without a request (no refresh credential), and
\* the flag is clear although the settled promise is still stored
C6_Witness ==
  /\ nOps = 2
  /\ rop[1].st = "settled" /\ rop[1].val = Null
  /\ rop[2].st = "settled"
  /\ calls[2].op = 2
  /\ ~isRefreshing
  /\ refreshPromise = 2


\* C7: a step of a hook fetch whose signal has been aborted changes neither
\* the stored credentials nor location.href nor the data nor the error of the
\* hook.
C7_AbortedFetchSilent ==
  [][ \A c \in CallIds :
        (calls[c].hook /\ calls[c].aborted /\ calls'[c] # calls[c])
          => UNCHANGED <<access, refresh, href, data, error>> ]_vars

\* C8: every hook fetch in progress other than the most recently started one
\* is aborted, and data and error are only ever written by the most recently
\* started fetch.
C8_LastRequestWins ==
  [][ /\ \A c \in CallIds :
           (calls'[c].hook /\ calls'[c].pc \notin {"idle", "done"} /\ c # abortRef')
             => calls'[c].aborted
      /\ data' # data => data'.by = abortRef'
      /\ error' # error => error'.by = abortRef' ]_vars

\* the store holds both credentials or neither
Paired == (access = Null) <=> (refresh = Null)

SingleCredentialWrite == SetAccessToken \/ SetRefreshToken \/ SetAuthToken

C10_StoreNeverThrows ==
  /\ ~storeThrew
  /\ getAccessToken # Throw
  /\ getRefreshToken # Throw
  /\ storage # "ok"
       => /\ getAccessToken = Null
          /\ getRefreshToken = Null
          /\ setAccessToken(CurStore, 1) = CurStore
          /\ setRefreshToken(CurStore, 1) = CurStore
          /\ setAuthTokens(CurStore, 1, 1) = CurStore
          /\ clearAuthTokens(CurStore) = CurStore
          /\ \A c \in CallIds :
               /\ calls[c].tok = Null
               /\ calls[c].exc # "SecurityError"
               /\ calls[c].refs = 0
               /\ (calls[c].pc = "returned" /\ calls[c].exc = "none")
                    => (calls[c].res = calls[c].orig /\ calls[c].res \in Statuses)

\* where every access to the storage throws, a credential setter has been
\* called and has left the store empty, a call was made without a credential
\* and the server's 401 was returned to the caller
C10_Witness ==
  /\ storage = "denied"
  /\ gen >= 2
  /\ CredentialsAbsent
  /\ \E c \in CallIds :
       /\ calls[c].pc = "returned"
       /\ calls[c].tok = Null
       /\ calls[c].res = 401


\* C11: the normalizer throws on no element of a fetched collection: every
\* ok response with a body is answered by the collection of its normalized
\* elements, never by a TypeError.
C11_NormalizerNeverThrows ==
  resStatus \in 200..299 =>
    /\ page.kind # "threw"
    /\ body.t = "array" => Len(page.content) = Len(body.items)

\* C12: every record the normalizer returns has a non-empty id and a
\* timestamp that is a valid instant.
C12_ValidInstant ==
  \A i \in 1..Len(mapped) :
    ~mapped[i].threw =>
      /\ mapped[i].idea.id.synth \/ mapped[i].idea.id.s # <<>>
      /\ mapped[i].idea.timestamp.valid

\* C13: a numeric timestamp n gives the instant n * 1000 ms when n is below
\* 10^12 and the instant n ms otherwise, 10^12 itself included.
C13_SecondsBelowThreshold ==
  LET n == Coalesce(Coalesce(Get(payload, "timestamp"),
                             Get(payload, "createdAt")),
                    Get(payload, "created_at"))
      below == n.e = 0 \/ n.n < TsThreshold
  IN \A i \in 1..Len(mapped) :
       (~mapped[i].threw /\ n.t = "number") =>
         mapped[i].idea.timestamp
           = NewDateOfNumber(IF below THEN Times1000(n) ELSE n)

\* C14: two calls of the normalizer on the same payload return records that
\* are equal in every field, except for an id that was synthesized.
C14_Idempotent ==
  Len(mapped) >= 2 =>
    /\ mapped[1].threw = mapped[2].threw
    /\ [mapped[1].idea EXCEPT !.id = 0] = [mapped[2].idea EXCEPT !.id = 0]
    /\ mapped[1].idea.id.synth = mapped[2].idea.id.synth
    /\ ~mapped[1].idea.id.synth => mapped[1].idea.id = mapped[2].idea.id

\* the body is an envelope: an object with an items array under `content`
\* and with totalElements and totalPages
IsEnvelope(b) ==
  /\ b.t = "object"
  /\ \E i \in 1..Len(b.arrays) : b.arrays[i][1] = "content"
  /\ b.tot.totalElements # UndefV
  /\ b.tot.totalPages # UndefV

\* records compared whatever number a synthesized id got
WithoutIdNumbers(ideas) ==
  [i \in 1..Len(ideas) |-> [ideas[i] EXCEPT !.id.k = 0]]

\* the elements of items mapped through the normalizer
NormalizedItems(items) ==
  WithoutIdNumbers(Ideas(MapItems(items, now, engineParses, 0)))

C16_PageInvariant ==
  page.kind = "page" =>
    /\ page.totalElements.t = "number" /\ page.totalElements.n >= 0
    /\ page.totalPages.t = "number" /\ page.totalPages.n >= 1
    /\ page.size.t = "number" /\ Len(page.content) <= page.size.n
    /\ ( /\ ~(body.tot.totalPages.t = "number" /\ body.tot.totalPages.n >= 1)
         /\ page.size.n > 0 ) =>
         LET pages == (page.totalElements.n + page.size.n - 1) \div page.size.n
         IN page.totalPages.n = (IF pages >= 1 THEN pages ELSE 1)

\* C17: loading is true whenever a non-silent hook fetch that has not been
\* aborted is still in progress.
C17_LoadingWhileFetching ==
  (\E c \in CallIds :
     /\ calls[c].hook
     /\ calls[c].pc \in {"first", "waitRefresh", "retry", "body"}
     /\ ~calls[c].silent
     /\ ~calls[c].aborted)
    => loading

\* C18: once the cleanup has run for unmount, every hook fetch still in
\* progress is aborted, and no step afterwards writes data or error.
C18_UnmountAbortsAll ==
  [][ ~mounted' =>
        /\ \A c \in CallIds :
             (calls'[c].hook
                /\ calls'[c].pc \in {"first", "waitRefresh", "retry", "body"})
               => calls'[c].aborted
        /\ ~mounted => UNCHANGED <<data, error>> ]_vars

\* C19: isRefreshing is true exactly when refreshPromise is non-null, and
\* refreshPromise is null whenever no refresh operation is unsettled.
C19_RefreshStateConsistent ==
  /\ isRefreshing <=> refreshPromise # 0
  /\ InFlightOps = {} => refreshPromise = 0

====
